---- MODULE Spec2Model ----
(***************************************************************************)
(* PDF to Markdown conversion (pdf_to_markdown.py, pdf_to_md_llm/).        *)
(*                                                                         *)
(* Text is modelled as a sequence of tokens; a token is a record           *)
(* [t |-> <literal or kind>, n |-> <number>].  A page's text is the token  *)
(* of its index, a formatted integer is the token of its value, and every  *)
(* string literal of the source is a token of its own, so that joins and   *)
(* f-strings are sequences that can be compared and searched.              *)
(***************************************************************************)
EXTENDS Integers, Sequences, FiniteSets, TLC

\* ------------------------------------------------------------------ bounds
MaxPages == 12     \* most pages a PDF of the model has
MaxK == 5          \* largest pages_per_chunk a caller passes
MaxNeg == 1        \* pages_per_chunk goes down to -MaxNeg
MaxChunks == 3     \* the conversion loop is followed for at most this many chunks
MaxFiles == 4      \* most PDF files under the batch input folder
MaxBatchPages == 6 \* most pages a PDF of a batch has

\* -------------------------------------------------------- program constants
MAX_TOKENS == 4000
PAGES_PER_CHUNK == 5

\* ------------------------------------------------------------------ tokens
Tok(t, n) == [t |-> t, n |-> n]
Lit(t) == Tok(t, 0)
PageText(i) == <<Tok("page", i)>>             \* the text of page i (0-based index)
Str(i) == <<Tok("int", i)>>                   \* f"{i}" of an integer
NL2 == <<Lit("\n\n")>>                        \* the literal "\n\n"
SEPARATOR == <<Lit("\n\n---\n\n")>>           \* the literal "\n\n---\n\n"

Min(a, b) == IF a < b THEN a ELSE b
Max(a, b) == IF a > b THEN a ELSE b

\* len(range(start, stop, step)) of Python, step # 0
RangeLen(start, stop, step) ==
    IF step > 0
    THEN IF start < stop THEN (stop - start + step - 1) \div step ELSE 0
    ELSE IF start > stop THEN (start - stop - step - 1) \div (0 - step) ELSE 0

\* range(start, stop, step) as a sequence
Range(start, stop, step) ==
    [j \in 1..RangeLen(start, stop, step) |-> start + (j - 1) * step]

\* s[a:b] of Python for 0 <= a <= b
Slice(s, a, b) == SubSeq(s, a + 1, Min(b, Len(s)))

\* sep.join(parts): parts is a sequence of token sequences
RECURSIVE Join(_, _)
Join(sep, parts) ==
    IF Len(parts) = 0 THEN <<>>
    ELSE IF Len(parts) = 1 THEN parts[1]
    ELSE parts[1] \o sep \o Join(sep, Tail(parts))

\* ----------------------------------------------------------------- chunker
\* chunk_pages with the slice end off by one: a plausible slip
chunk_pages_short(pages, pages_per_chunk) ==
    IF pages_per_chunk = 0
    THEN [raised |-> "ValueError", value |-> <<>>]
    ELSE [raised |-> "none",
          value |-> [j \in 1..RangeLen(0, Len(pages), pages_per_chunk) |->
                       Join(NL2, Slice(pages,
                                       Range(0, Len(pages), pages_per_chunk)[j],
                                       Range(0, Len(pages), pages_per_chunk)[j]
                                           + pages_per_chunk - 1))]]

\* chunk_pages(pages, pages_per_chunk): range() raises ValueError on a zero
\* step and is empty on a negative one
chunk_pages(pages, pages_per_chunk) ==
    IF pages_per_chunk = 0
    THEN [raised |-> "ValueError", value |-> <<>>]
    ELSE [raised |-> "none",
          value |-> [j \in 1..RangeLen(0, Len(pages), pages_per_chunk) |->
                       Join(NL2, Slice(pages,
                                       Range(0, Len(pages), pages_per_chunk)[j],
                                       Range(0, Len(pages), pages_per_chunk)[j]
                                           + pages_per_chunk))]]

\* the page list extraction gives for a PDF of n pages
PagesOf(n) == [i \in 1..n |-> PageText(i - 1)]

\* --------------------------------------------------------------- providers
\* what the backend SDK does with one request: a reply, or an exception
StopReasons(backend) ==
    IF backend = "anthropic" THEN {"end_turn", "max_tokens"}
    ELSE {"stop", "length"}

\* the stop/finish reasons that report an exhausted output-length budget
LengthStops == {"max_tokens", "length"}

\* Markdown a backend may produce; the second holds a horizontal rule
Markdowns == {<<Tok("md", 1)>>, <<Tok("md", 2)>> \o SEPARATOR \o <<Tok("md", 3)>>}

BackendErrors == {"RateLimitError", "APIConnectionError", "AuthenticationError"}

Reply(stop, text) == [raised |-> "none", stop |-> stop, text |-> text]
Raise(kind) == [raised |-> kind, stop |-> "none", text |-> <<>>]

BackendOutcomes(backend) ==
    {Reply(s, m) : s \in StopReasons(backend), m \in Markdowns}
        \cup {Raise(e) : e \in BackendErrors}

\* models that take no image input; the backend answers a request with
\* images for one of them with an error (HTTP 400, the SDK's BadRequestError)
TextOnlyModels == {"gpt-3.5-turbo"}
OutcomesOf(request) ==
    IF request.mode = "vision" /\ request.model \in TextOnlyModels
    THEN {Raise("BadRequestError")} \cup {Raise(e) : e \in BackendErrors}
    ELSE BackendOutcomes(request.backend)

None == "None"
DefaultModel(cls) ==
    IF cls = "AnthropicProvider" THEN "claude-sonnet-4-20250514" ELSE "gpt-4o"
EnvVar(cls) ==
    IF cls = "AnthropicProvider" THEN "ANTHROPIC_API_KEY" ELSE "OPENAI_API_KEY"
BackendOf(cls) == IF cls = "AnthropicProvider" THEN "anthropic" ELSE "openai"

\* a or b of Python on optional strings (None and "" are falsy)
Or(a, b) == IF a = None \/ a = "" THEN b ELSE a

\* AnthropicProvider.__init__ / OpenAIProvider.__init__: the key is the
\* argument or else the environment variable; the SDK client is made with it.
\* OpenAI(api_key=None) raises OpenAIError when the variable is unset;
\* anthropic.Anthropic(api_key=None) does not raise
NewProvider(cls, api_key, model, env) ==
    IF cls = "OpenAIProvider" /\ Or(api_key, env[EnvVar(cls)]) = None
    THEN [raised |-> "OpenAIError", value |-> None]
    ELSE [raised |-> "none",
          value |-> [cls |-> cls,
                     api_key |-> Or(api_key, env[EnvVar(cls)]),
                     model |-> model,
                     client |-> [api_key |-> Or(api_key, env[EnvVar(cls)])]]]

\* str.lower() on the provider names of the model
ProviderNames == {"anthropic", "openai", "Anthropic", "OPENAI", "gemini"}
Lower(name) ==
    CASE name = "Anthropic" -> "anthropic"
      [] name = "OPENAI" -> "openai"
      [] OTHER -> name

\* get_provider comparing the name as given, without lower()
get_provider_exact(provider_name, api_key, model, env) ==
    IF provider_name = "anthropic"
    THEN NewProvider("AnthropicProvider", api_key,
                     IF model = None \/ model = ""
                     THEN DefaultModel("AnthropicProvider") ELSE model, env)
    ELSE IF provider_name = "openai"
    THEN NewProvider("OpenAIProvider", api_key,
                     IF model = None \/ model = ""
                     THEN DefaultModel("OpenAIProvider") ELSE model, env)
    ELSE [raised |-> "ValueError", value |-> None]

\* get_provider(provider_name, api_key, model)
get_provider(provider_name, api_key, model, env) ==
    IF Lower(provider_name) = "anthropic"
    THEN NewProvider("AnthropicProvider", api_key,
                     IF model = None \/ model = ""
                     THEN DefaultModel("AnthropicProvider") ELSE model, env)
    ELSE IF Lower(provider_name) = "openai"
    THEN NewProvider("OpenAIProvider", api_key,
                     IF model = None \/ model = ""
                     THEN DefaultModel("OpenAIProvider") ELSE model, env)
    ELSE [raised |-> "ValueError", value |-> None]

\* validate_config: bool(self.api_key and self.api_key != "your-api-key-here")
validate_config(self) ==
    self.api_key # None /\ self.api_key # "" /\ self.api_key # "your-api-key-here"

\* the text prompt: the fixed instructions followed by the text
TextPrompt(text) == <<Lit("Convert this text from a PDF document ...")>> \o text

\* the multimodal content: one instruction block, then per page its image
\* and its extracted-text block (1-indexed page number)
RECURSIVE PageBlocks(_)
PageBlocks(pages) ==
    IF Len(pages) = 0 THEN <<>>
    ELSE <<Tok("image", pages[1].page_num)>>
         \o <<Lit("\n**Extracted text from page ")>> \o Str(pages[1].page_num + 1)
         \o <<Lit(":**\n\n")>> \o pages[1].text \o <<Lit("\n\n---\n")>>
         \o PageBlocks(Tail(pages))

VisionContent(pages) == <<Lit("Convert these PDF pages ...")>> \o PageBlocks(pages)

\* the request a provider sends: client.messages.create / chat.completions.create
Request(self, max_tokens, content, mode) ==
    [backend |-> BackendOf(self.cls), model |-> self.model,
     max_tokens |-> max_tokens, content |-> content, mode |-> mode]

\* AnthropicProvider.convert_to_markdown / convert_to_markdown_vision:
\* return message.content[0].text; an SDK exception passes through
AnthropicProvider_convert(outcome) ==
    IF outcome.raised # "none"
    THEN [raised |-> outcome.raised, value |-> <<>>]
    ELSE [raised |-> "none", value |-> outcome.text]

\* OpenAIProvider.convert_to_markdown / convert_to_markdown_vision:
\* return response.choices[0].message.content
OpenAIProvider_convert(outcome) ==
    IF outcome.raised # "none"
    THEN [raised |-> outcome.raised, value |-> <<>>]
    ELSE [raised |-> "none", value |-> outcome.text]

Provider_convert(self, outcome) ==
    IF self.cls = "AnthropicProvider" THEN AnthropicProvider_convert(outcome)
    ELSE OpenAIProvider_convert(outcome)

\* ---------------------------------------------------------------- pipeline
\* paths: [root, dir, stem, ext]; the i-th PDF under the input folder:
\* in/1.pdf, in/sub/1.pdf, in/2.pdf, in/sub/2.pdf, ... (every second one in
\* a subdirectory, under the name of the one before it)
INPUT_ROOT == "in"
File(i) == [root |-> INPUT_ROOT, dir |-> IF i % 2 = 0 THEN "sub" ELSE "",
            stem |-> (i + 1) \div 2, ext |-> ".pdf"]
NoPath == [root |-> None, dir |-> "", stem |-> 0, ext |-> ""]

\* Path.with_suffix, Path.relative_to followed by output_path / relative
WithSuffix(path, ext) == [path EXCEPT !.ext = ext]
Mirror(path, output_root) == [path EXCEPT !.root = output_root]

\* ANTHROPIC_API_KEY = os.environ.get("ANTHROPIC_API_KEY", "your-api-key-here")
PLACEHOLDER == "your-api-key-here"
ANTHROPIC_API_KEY(env) ==
    IF env["ANTHROPIC_API_KEY"] = None THEN PLACEHOLDER ELSE env["ANTHROPIC_API_KEY"]

\* the lines main prints before it exits with status 1
LineUsage == <<Lit("PDF to Markdown Converter (LLM-Assisted) ...")>>
LineNoKey == <<Lit("Error: Please set ANTHROPIC_API_KEY environment variable")>>
LineBatchNeedsFolder == <<Lit("Error: --batch requires input folder")>>
LineNotFound == <<Lit("Error: File not found: "), Lit("1.pdf")>>

\* the request convert_chunk_to_markdown sends for a chunk
ChunkRequest(chunk) ==
    [backend |-> "anthropic", model |-> "claude-sonnet-4-20250514",
     max_tokens |-> MAX_TOKENS, content |-> TextPrompt(chunk), mode |-> "text"]

\* convert_chunk_to_markdown: return message.content[0].text
convert_chunk_to_markdown(outcome) ==
    IF outcome.raised # "none"
    THEN [raised |-> outcome.raised, value |-> <<>>]
    ELSE [raised |-> "none", value |-> outcome.text]

\* the chunk loop's handler lets rate-limit errors through: a plausible slip
ChunkCatches_narrow(kind) == kind # "RateLimitError"

\* the chunk loop's handler catches only what the backend reports, not a
\* broken connection
ChunkCatches_network(kind) == kind # "APIConnectionError"

\* except Exception (the chunk loop): every error of the call is caught
ChunkCatches(kind) == TRUE

\* the marker with the 0-based ordinal in place of the loop index
ErrorMarker_ordinal(i, e) ==
    NL2 \o <<Lit("<!-- Error converting chunk ")>> \o Str(i - 1) \o <<Lit(": ")>>
        \o <<Lit(e)>> \o <<Lit(" -->")>> \o NL2

\* f"\n\n<!-- Error converting chunk {i}: {e} -->\n\n", i from enumerate(chunks, 1)
ErrorMarker(i, e) ==
    NL2 \o <<Lit("<!-- Error converting chunk ")>> \o Str(i) \o <<Lit(": ")>>
        \o <<Lit(e)>> \o <<Lit(" -->")>> \o NL2

\* the header f-string: title, provenance note and a horizontal rule
Header(pdf_path) ==
    <<Lit("# "), Tok("stem", pdf_path.stem)>> \o NL2
        \o <<Lit("*Converted from PDF using LLM-assisted conversion*")>>
        \o SEPARATOR

\* the assembly with the chunks joined by a blank line only
Assemble_norule(pdf_path, markdown_chunks) ==
    Header(pdf_path) \o Join(NL2, markdown_chunks)

\* the results with every repetition of an earlier one dropped
RECURSIVE Distinct(_)
Distinct(parts) ==
    IF Len(parts) = 0 THEN <<>>
    ELSE LET front == Distinct(SubSeq(parts, 1, Len(parts) - 1))
         IN  IF \E x \in 1..Len(front) : front[x] = parts[Len(parts)]
             THEN front
             ELSE Append(front, parts[Len(parts)])

\* the assembly over the distinct results only
Assemble_distinct(pdf_path, markdown_chunks) ==
    Header(pdf_path) \o Join(SEPARATOR, Distinct(markdown_chunks))

\* header + "\n\n---\n\n".join(markdown_chunks)
Assemble(pdf_path, markdown_chunks) ==
    Header(pdf_path) \o Join(SEPARATOR, markdown_chunks)

\* except Exception (the batch loop)
BatchCatches(kind) == TRUE

\* the lines batch_convert prints
LineNoFiles == <<Lit("No PDF files found in "), Lit(INPUT_ROOT)>>
LineFound(n) == <<Lit("Found ")>> \o Str(n) \o <<Lit(" PDF files to convert\n")>>
LineIndex(i, n) == <<Lit("\n[")>> \o Str(i) \o <<Lit("/")>> \o Str(n) \o <<Lit("]")>>
LineFailed(e) == <<Lit("Failed: "), Lit(e)>>
LineComplete == <<Lit("\nBatch conversion complete!")>>
LineOutputDir(root) == <<Lit("  Output directory: "), Lit(root)>>

VARIABLES
    ck_pages,       \* chunker call: the pages argument
    ck_k,           \* chunker call: the pages_per_chunk argument
    ck_out,         \* chunker call: NoCall, or what chunk_pages did
    environ,        \* os.environ: the two API key variables
    pv_args,        \* NoArgs, or the arguments get_provider was called with
    provider,       \* NoProvider, or the provider get_provider built
    pv_op,          \* "none", or the provider operation called: "text", "vision"
    pv_request,     \* NoRequest, or the request sent to the backend
    pv_outcome,     \* NoOutcome, or what the backend did with it
    pv_result,      \* NoCall, or what the provider operation did
    sys_exit,       \* "none", or the status main left the process with
    mode,           \* "main": the script is run; "single": convert_pdf_to_markdown
                    \*   is called; "batch": batch_convert
    folder_n,       \* the number of PDF files under the input folder
    output_folder,  \* batch_convert's output_folder argument (None: the input folder)
    bd_pc,          \* batch_convert: "idle", "loop", "infile", "returned", "raised"
    pdf_files,      \* batch_convert: the file list
    bd_i,           \* batch_convert: the loop index (from 1)
    attempts,       \* the files convert_pdf_to_markdown was called on, in call order
    failed_files,   \* the files whose conversion raised, in order
    stdout,         \* the lines batch_convert printed
    summary_from,   \* the length of stdout when the batch loop ended (0: not yet)
    pp_pc,          \* convert_pdf_to_markdown: "idle", "extract", "chunk", "loop",
                    \*   "call", "assemble", "save", "returned", "raised"
    pdf_path,       \* its pdf_path argument
    output_path,    \* its output_path argument (NoPath: None)
    pages_per_chunk,\* its pages_per_chunk argument
    pages,          \* the extracted page texts
    chunks,         \* the chunks
    pp_i,           \* the loop index i of enumerate(chunks, 1)
    markdown_chunks,\* the results collected so far
    outcomes,       \* what the backend did with each request, in request order
    requests,       \* the requests sent, each with its loop index, in order
    in_flight,      \* the number of provider calls awaiting their reply
    full_markdown,  \* the assembled document
    pp_exc,         \* the exception convert_pdf_to_markdown raised ("none")
    writes,         \* the output paths written, in order
    caller_exc      \* the exception that reached the caller of the entry point

NoCall == [raised |-> "not called", value |-> <<>>]
NoArgs == [provider_name |-> None, api_key |-> None, model |-> None]
NoProvider == [cls |-> "none", api_key |-> None, model |-> None,
               client |-> [api_key |-> None]]
NoRequest == [backend |-> "none", model |-> None, max_tokens |-> 0,
              content |-> <<>>, mode |-> "none"]
NoOutcome == [raised |-> "not called", stop |-> "none", text |-> <<>>]

ckVars == <<ck_pages, ck_k, ck_out>>
pvVars == <<environ, pv_args, provider, pv_op, pv_request, pv_outcome, pv_result>>

bdVars == <<mode, folder_n, output_folder, bd_pc, pdf_files, bd_i, attempts,
            failed_files, stdout, summary_from, caller_exc>>
ppArgs == <<pdf_path, output_path, pages_per_chunk>>
ppVars == <<pp_pc, pdf_path, output_path, pages_per_chunk, pages, chunks, pp_i,
            markdown_chunks, outcomes, requests, in_flight, full_markdown, pp_exc,
            writes>>

vars == <<sys_exit, ck_pages, ck_k, ck_out, environ, pv_args, provider, pv_op, pv_request, pv_outcome, pv_result,
          mode, folder_n, output_folder, bd_pc, pdf_files, bd_i, attempts,
          failed_files, stdout, summary_from, caller_exc,
          pp_pc, pdf_path, output_path, pages_per_chunk, pages, chunks, pp_i,
          markdown_chunks, outcomes, requests, in_flight, full_markdown, pp_exc,
          writes>>

\* ------------------------------------------------- specification: chunker
ChunkSizes == (0 - MaxNeg)..MaxK

CkInit ==
    /\ ck_pages \in {PagesOf(n) : n \in 0..MaxPages}
    /\ ck_k \in ChunkSizes
    /\ ck_out = NoCall

PvIdle ==
    /\ environ = [v \in {"ANTHROPIC_API_KEY", "OPENAI_API_KEY"} |-> None]
    /\ pv_args = NoArgs
    /\ provider = NoProvider
    /\ pv_op = "none"
    /\ pv_request = NoRequest
    /\ pv_outcome = NoOutcome
    /\ pv_result = NoCall

\* the pipeline and the batch driver before any call
PpIdle ==
    /\ pp_pc = "idle"
    /\ pdf_path = NoPath
    /\ output_path = NoPath
    /\ pages_per_chunk = PAGES_PER_CHUNK
    /\ pages = <<>>
    /\ chunks = <<>>
    /\ pp_i = 0
    /\ markdown_chunks = <<>>
    /\ outcomes = <<>>
    /\ requests = <<>>
    /\ in_flight = 0
    /\ full_markdown = <<>>
    /\ pp_exc = "none"

BdIdle ==
    /\ bd_pc = "idle"
    /\ pdf_files = <<>>
    /\ bd_i = 0
    /\ attempts = <<>>
    /\ failed_files = <<>>
    /\ stdout = <<>>
    /\ summary_from = 0
    /\ caller_exc = "none"

MainIdle ==
    /\ sys_exit = "none"
    /\ mode = "single"
    /\ folder_n = 1
    /\ output_folder = None
    /\ BdIdle
    /\ PpIdle
    /\ writes = <<>>

CkCall ==
    /\ ck_out = NoCall
    /\ ck_out' = chunk_pages(ck_pages, ck_k)
    /\ UNCHANGED <<ck_pages, ck_k>>
    /\ UNCHANGED <<sys_exit, pvVars, bdVars, ppVars>>

CkNext == CkCall

InitChunker == CkInit /\ PvIdle /\ MainIdle

SpecChunker == InitChunker /\ [][CkNext]_vars

\* ----------------------------------------------- specification: providers
ApiKeys == {None, "sk-key"}
EnvKeys == {None, "sk-env"}
Models == {None, "gpt-3.5-turbo"}
TokenBudgets == {100, MAX_TOKENS}

\* the pages of a vision chunk: page records with text and image
VisionPages(n) ==
    [i \in 1..n |-> [page_num |-> i - 1, text |-> PageText(i - 1),
                     image_base64 |-> Tok("png", i - 1)]]

CkIdle ==
    /\ ck_pages = <<>>
    /\ ck_k = PAGES_PER_CHUNK
    /\ ck_out = NoCall

PvInit ==
    /\ environ \in [{"ANTHROPIC_API_KEY", "OPENAI_API_KEY"} -> EnvKeys]
    /\ pv_args = NoArgs
    /\ provider = NoProvider
    /\ pv_op = "none"
    /\ pv_request = NoRequest
    /\ pv_outcome = NoOutcome
    /\ pv_result = NoCall

\* a caller selects a provider by name
GetProvider ==
    /\ provider = NoProvider
    /\ pv_result = NoCall
    /\ \E name \in ProviderNames, key \in ApiKeys, model \in Models :
         LET r == get_provider(name, key, model, environ) IN
           /\ pv_args' = [provider_name |-> name, api_key |-> key, model |-> model]
           /\ IF r.raised = "none"
              THEN /\ provider' = r.value
                   /\ UNCHANGED pv_result
              ELSE /\ pv_result' = [raised |-> r.raised, value |-> <<>>]
                   /\ UNCHANGED provider
    /\ UNCHANGED <<environ, pv_op, pv_request, pv_outcome>>
    /\ UNCHANGED <<sys_exit, ckVars, bdVars, ppVars>>

\* provider.convert_to_markdown(text, max_tokens): one blocking request
ConvertToMarkdown ==
    /\ provider # NoProvider
    /\ pv_result = NoCall
    /\ pv_op' = "text"
    /\ \E n \in 1..2, max_tokens \in TokenBudgets :
         \E outcome \in OutcomesOf(Request(provider, max_tokens,
                                           TextPrompt(Join(NL2, PagesOf(n))), "text")) :
         /\ pv_request' = Request(provider, max_tokens,
                                  TextPrompt(Join(NL2, PagesOf(n))), "text")
         /\ pv_outcome' = outcome
         /\ pv_result' = Provider_convert(provider, outcome)
    /\ UNCHANGED <<environ, pv_args, provider>>
    /\ UNCHANGED <<sys_exit, ckVars, bdVars, ppVars>>

\* provider.convert_to_markdown_vision(pages, max_tokens)
ConvertToMarkdownVision ==
    /\ provider # NoProvider
    /\ pv_result = NoCall
    /\ pv_op' = "vision"
    /\ \E n \in 1..2, max_tokens \in TokenBudgets :
         \E outcome \in OutcomesOf(Request(provider, max_tokens,
                                           VisionContent(VisionPages(n)), "vision")) :
         /\ pv_request' = Request(provider, max_tokens,
                                  VisionContent(VisionPages(n)), "vision")
         /\ pv_outcome' = outcome
         /\ pv_result' = Provider_convert(provider, outcome)
    /\ UNCHANGED <<environ, pv_args, provider>>
    /\ UNCHANGED <<sys_exit, ckVars, bdVars, ppVars>>

PvNext == GetProvider \/ ConvertToMarkdown \/ ConvertToMarkdownVision

InitProvider == CkIdle /\ PvInit /\ MainIdle

SpecProvider == InitProvider /\ [][PvNext]_vars

\* --------------------------------- specification: pipeline and batch driver
OutFolders == {None, "out"}

Init ==
    /\ CkIdle
    /\ PvIdle
    /\ sys_exit = "none"
    /\ mode \in {"single", "batch"}
    /\ folder_n \in 0..MaxFiles
    /\ mode = "single" => folder_n = 1
    /\ output_folder \in OutFolders
    /\ mode = "single" => output_folder = None
    /\ BdIdle
    /\ PpIdle
    /\ writes = <<>>

\* convert_pdf_to_markdown(path, out, k) is entered: its locals are fresh
Begin(path, out, k) ==
    /\ pp_pc' = "extract"
    /\ pdf_path' = path
    /\ output_path' = out
    /\ pages_per_chunk' = k
    /\ pages' = <<>>
    /\ chunks' = <<>>
    /\ pp_i' = 0
    /\ markdown_chunks' = <<>>
    /\ outcomes' = <<>>
    /\ requests' = <<>>
    /\ full_markdown' = <<>>
    /\ pp_exc' = "none"
    /\ UNCHANGED <<in_flight, writes>>

\* a caller converts one PDF
SingleCall ==
    /\ mode = "single"
    /\ pp_pc = "idle"
    /\ \E out \in {NoPath, [root |-> "out", dir |-> "", stem |-> 1, ext |-> ".md"]},
          k \in ChunkSizes :
         Begin(File(1), out, k)
    /\ UNCHANGED <<sys_exit, ckVars, pvVars, bdVars>>

\* the extraction's failure noted and the conversion going on with no pages
Extract_noted ==
    /\ pp_pc = "extract"
    /\ \/ /\ pp_exc' = "ExtractionError"
          /\ pp_pc' = "chunk"
          /\ UNCHANGED pages
       \/ /\ \E n \in 0..(IF mode = "batch" THEN MaxBatchPages ELSE MaxPages) :
               /\ pages_per_chunk > 0 => RangeLen(0, n, pages_per_chunk) <= MaxChunks
               /\ pages' = PagesOf(n)
          /\ pp_pc' = "chunk"
          /\ UNCHANGED pp_exc
    /\ UNCHANGED <<ppArgs, chunks, pp_i, markdown_chunks, outcomes, requests, in_flight,
                   full_markdown, writes>>
    /\ UNCHANGED <<sys_exit, ckVars, pvVars, bdVars>>

\* pages = extract_text_from_pdf(pdf_path): pymupdf fails on an unreadable
\* file, else gives the page texts
Extract ==
    /\ pp_pc = "extract"
    /\ \/ /\ pp_exc' = "ExtractionError"
          /\ pp_pc' = "raised"
          /\ UNCHANGED pages
       \/ /\ \E n \in 0..(IF mode = "batch" THEN MaxBatchPages ELSE MaxPages) :
               /\ pages_per_chunk > 0 => RangeLen(0, n, pages_per_chunk) <= MaxChunks
               /\ pages' = PagesOf(n)
          /\ pp_pc' = "chunk"
          /\ UNCHANGED pp_exc
    /\ UNCHANGED <<ppArgs, chunks, pp_i, markdown_chunks, outcomes, requests, in_flight,
                   full_markdown, writes>>
    /\ UNCHANGED <<sys_exit, ckVars, pvVars, bdVars>>

\* chunks = chunk_pages(pages, pages_per_chunk)
Chunk ==
    /\ pp_pc = "chunk"
    /\ LET r == chunk_pages(pages, pages_per_chunk) IN
         IF r.raised # "none"
         THEN /\ pp_exc' = r.raised
              /\ pp_pc' = "raised"
              /\ UNCHANGED <<chunks, pp_i>>
         ELSE /\ chunks' = r.value
              /\ pp_i' = 1
              /\ pp_pc' = IF Len(r.value) = 0 THEN "assemble" ELSE "loop"
              /\ UNCHANGED pp_exc
    /\ UNCHANGED <<ppArgs, pages, markdown_chunks, outcomes, requests, in_flight,
                   full_markdown, writes>>
    /\ UNCHANGED <<sys_exit, ckVars, pvVars, bdVars>>

\* the loop sending the next chunk's request without waiting for the reply
\* to the one before
CallProvider_nowait ==
    /\ pp_pc \in {"loop", "call"}
    /\ Len(requests) < Len(chunks)
    /\ requests' = Append(requests, [i |-> Len(requests) + 1,
                                     request |-> ChunkRequest(chunks[Len(requests) + 1])])
    /\ in_flight' = in_flight + 1
    /\ pp_pc' = "call"
    /\ UNCHANGED <<ppArgs, pages, chunks, pp_i, markdown_chunks, outcomes,
                   full_markdown, pp_exc, writes>>
    /\ UNCHANGED <<sys_exit, ckVars, pvVars, bdVars>>

\* the loop body up to the blocking client.messages.create of chunk i
CallProvider ==
    /\ pp_pc = "loop"
    /\ requests' = Append(requests, [i |-> pp_i, request |-> ChunkRequest(chunks[pp_i])])
    /\ in_flight' = in_flight + 1
    /\ pp_pc' = "call"
    /\ UNCHANGED <<ppArgs, pages, chunks, pp_i, markdown_chunks, outcomes,
                   full_markdown, pp_exc, writes>>
    /\ UNCHANGED <<sys_exit, ckVars, pvVars, bdVars>>

\* the call returns or raises; the loop body records the result
ProviderReturns ==
    /\ pp_pc = "call"
    /\ \E outcome \in BackendOutcomes("anthropic") :
         LET r == convert_chunk_to_markdown(outcome) IN
           /\ outcomes' = Append(outcomes, outcome)
           /\ IF r.raised = "none"
              THEN /\ markdown_chunks' = Append(markdown_chunks, r.value)
                   /\ pp_i' = pp_i + 1
                   /\ pp_pc' = IF pp_i = Len(chunks) THEN "assemble" ELSE "loop"
                   /\ UNCHANGED pp_exc
              ELSE IF ChunkCatches(r.raised)
              THEN /\ markdown_chunks' =
                        Append(markdown_chunks, ErrorMarker(pp_i, r.raised))
                   /\ pp_i' = pp_i + 1
                   /\ pp_pc' = IF pp_i = Len(chunks) THEN "assemble" ELSE "loop"
                   /\ UNCHANGED pp_exc
              ELSE /\ pp_exc' = r.raised
                   /\ pp_pc' = "raised"
                   /\ UNCHANGED <<markdown_chunks, pp_i>>
    /\ in_flight' = in_flight - 1
    /\ UNCHANGED <<ppArgs, pages, chunks, requests, full_markdown, writes>>
    /\ UNCHANGED <<sys_exit, ckVars, pvVars, bdVars>>

\* full_markdown = header + separator.join(markdown_chunks)
AssembleDocument ==
    /\ pp_pc = "assemble"
    /\ full_markdown' = Assemble(pdf_path, markdown_chunks)
    /\ pp_pc' = "save"
    /\ UNCHANGED <<ppArgs, pages, chunks, pp_i, markdown_chunks, outcomes, requests,
                   in_flight, pp_exc, writes>>
    /\ UNCHANGED <<sys_exit, ckVars, pvVars, bdVars>>

\* the output file is opened and written, then the Document returned; open
\* may fail (nothing written), and so may the write to the opened file
Save ==
    /\ pp_pc = "save"
    /\ \/ /\ writes' = Append(writes, IF output_path = NoPath
                                     THEN WithSuffix(pdf_path, ".md")
                                     ELSE output_path)
          /\ pp_pc' = "returned"
          /\ UNCHANGED pp_exc
       \/ /\ pp_exc' = "OSError"
          /\ pp_pc' = "raised"
          /\ UNCHANGED writes
       \/ /\ writes' = Append(writes, IF output_path = NoPath
                                     THEN WithSuffix(pdf_path, ".md")
                                     ELSE output_path)
          /\ pp_exc' = "OSError"
          /\ pp_pc' = "raised"
    /\ UNCHANGED <<ppArgs, pages, chunks, pp_i, markdown_chunks, outcomes, requests,
                   in_flight, full_markdown>>
    /\ UNCHANGED <<sys_exit, ckVars, pvVars, bdVars>>

\* Path.mkdir(parents=True, exist_ok=True) succeeds on a directory that
\* exists and can fail where one has to be made: a subdirectory mirrored
\* under an output folder that is not the input folder
SubdirMayFail(root, dir) == root # INPUT_ROOT /\ dir # ""

\* batch_convert up to the loop: the output folder is made, the file list
\* is built once
BatchCall ==
    /\ mode = "batch"
    /\ bd_pc = "idle"
    /\ \/ /\ pdf_files' = [i \in 1..folder_n |-> File(i)]
          /\ IF folder_n = 0
             THEN /\ stdout' = Append(stdout, LineNoFiles)
                  /\ bd_pc' = "returned"
                  /\ UNCHANGED bd_i
             ELSE /\ stdout' = Append(stdout, LineFound(folder_n))
                  /\ bd_pc' = "loop"
                  /\ bd_i' = 1
          /\ UNCHANGED caller_exc
       \/ /\ output_folder # None
          /\ caller_exc' = "OSError"
          /\ bd_pc' = "raised"
          /\ UNCHANGED <<pdf_files, stdout, bd_i>>
    /\ UNCHANGED <<mode, folder_n, output_folder, attempts, failed_files, summary_from>>
    /\ UNCHANGED <<sys_exit, ckVars, pvVars, ppVars>>

\* the output file as the PDF's name alone under the output folder, its
\* directory below the input folder dropped
OutputFile_flat(pdf_file, out_folder) ==
    WithSuffix([Mirror(pdf_file, IF out_folder = None THEN INPUT_ROOT ELSE out_folder)
                   EXCEPT !.dir = ""],
               ".md")

\* the output file of a PDF: its path relative to the input folder, under
\* the output folder, with the suffix .md
OutputFile(pdf_file, out_folder) ==
    WithSuffix(Mirror(pdf_file, IF out_folder = None THEN INPUT_ROOT ELSE out_folder),
               ".md")

\* one iteration up to the call of convert_pdf_to_markdown: the index line,
\* the output file, its directory (made outside the try), the call
BatchIter ==
    /\ bd_pc = "loop"
    /\ bd_i <= Len(pdf_files)
    /\ stdout' = Append(stdout, LineIndex(bd_i, Len(pdf_files)))
    /\ \/ /\ attempts' = Append(attempts, pdf_files[bd_i])
          /\ Begin(pdf_files[bd_i], OutputFile(pdf_files[bd_i], output_folder),
                   PAGES_PER_CHUNK)
          /\ bd_pc' = "infile"
          /\ UNCHANGED caller_exc
       \/ /\ SubdirMayFail(OutputFile(pdf_files[bd_i], output_folder).root,
                           OutputFile(pdf_files[bd_i], output_folder).dir)
          /\ caller_exc' = "OSError"
          /\ bd_pc' = "raised"
          /\ UNCHANGED <<attempts, ppVars>>
    /\ UNCHANGED <<mode, folder_n, output_folder, pdf_files, bd_i, failed_files,
                   summary_from>>
    /\ UNCHANGED <<sys_exit, ckVars, pvVars>>

\* convert_pdf_to_markdown returned or raised: its frame is gone (the return
\* value is dropped); the handler prints a failure; then the next file
BatchFileDone ==
    /\ bd_pc = "infile"
    /\ pp_pc \in {"returned", "raised"}
    /\ failed_files' = IF pp_pc = "raised" THEN Append(failed_files, pdf_path)
                       ELSE failed_files
    /\ IF pp_pc = "raised" /\ ~BatchCatches(pp_exc)
       THEN /\ caller_exc' = pp_exc
            /\ bd_pc' = "raised"
            /\ UNCHANGED <<stdout, bd_i>>
       ELSE /\ stdout' = IF pp_pc = "raised"
                         THEN Append(stdout, LineFailed(pp_exc)) ELSE stdout
            /\ bd_i' = bd_i + 1
            /\ bd_pc' = "loop"
            /\ UNCHANGED caller_exc
    /\ pp_pc' = "idle"
    /\ pdf_path' = NoPath
    /\ output_path' = NoPath
    /\ pages_per_chunk' = PAGES_PER_CHUNK
    /\ pages' = <<>>
    /\ chunks' = <<>>
    /\ pp_i' = 0
    /\ markdown_chunks' = <<>>
    /\ outcomes' = <<>>
    /\ requests' = <<>>
    /\ full_markdown' = <<>>
    /\ pp_exc' = "none"
    /\ UNCHANGED <<in_flight, writes>>
    /\ UNCHANGED <<mode, folder_n, output_folder, pdf_files, attempts, summary_from>>
    /\ UNCHANGED <<sys_exit, ckVars, pvVars>>

\* the environment: a PDF appears under the input folder while the batch
\* runs (followed once, between two files)
AddFile ==
    /\ bd_pc = "loop"
    /\ folder_n = Len(pdf_files)
    /\ folder_n' = folder_n + 1
    /\ UNCHANGED <<mode, output_folder, bd_pc, pdf_files, bd_i, attempts, failed_files,
                   stdout, summary_from, caller_exc>>
    /\ UNCHANGED <<sys_exit, ckVars, pvVars, ppVars>>

\* after the loop: the closing lines
BatchFinish ==
    /\ bd_pc = "loop"
    /\ bd_i > Len(pdf_files)
    /\ summary_from' = Len(stdout)
    /\ stdout' = stdout \o <<LineComplete,
                             LineOutputDir(IF output_folder = None THEN INPUT_ROOT
                                           ELSE output_folder)>>
    /\ bd_pc' = "returned"
    /\ UNCHANGED <<mode, folder_n, output_folder, pdf_files, bd_i, attempts,
                   failed_files, caller_exc>>
    /\ UNCHANGED <<sys_exit, ckVars, pvVars, ppVars>>

Next ==
    \/ SingleCall
    \/ Extract
    \/ Chunk
    \/ CallProvider
    \/ ProviderReturns
    \/ AssembleDocument
    \/ Save
    \/ BatchCall
    \/ BatchIter
    \/ BatchFileDone
    \/ BatchFinish
    \/ AddFile

Spec == Init /\ [][Next]_vars

\* ------------------------------------------ specification: the script's main
\* sys.argv[1:] as the script is run
Argvs == {<<>>, <<"1.pdf">>, <<"1.pdf", "out.md">>,
          <<"--batch">>, <<"--batch", "in">>, <<"--batch", "in", "out">>}
MainEnvKeys == {None, "", "your-api-key-here", "sk-env"}

InitMain ==
    /\ CkIdle
    /\ environ \in [{"ANTHROPIC_API_KEY", "OPENAI_API_KEY"} -> MainEnvKeys]
    /\ environ["OPENAI_API_KEY"] = None
    /\ pv_args = NoArgs
    /\ provider = NoProvider
    /\ pv_op = "none"
    /\ pv_request = NoRequest
    /\ pv_outcome = NoOutcome
    /\ pv_result = NoCall
    /\ sys_exit = "none"
    /\ mode = "main"
    /\ folder_n \in 0..MaxFiles
    /\ output_folder = None
    /\ BdIdle
    /\ PpIdle
    /\ writes = <<>>

\* main(): the usage, the API key check, then batch_convert or (the file
\* existing) convert_pdf_to_markdown with the default chunk size; 1.pdf
\* exists when the folder holds a file
Main ==
    /\ mode = "main"
    /\ sys_exit = "none"
    /\ \E argv \in Argvs :
         IF Len(argv) = 0
         THEN /\ stdout' = Append(stdout, LineUsage)
              /\ sys_exit' = "1"
              /\ UNCHANGED <<mode, output_folder, ppVars>>
         ELSE IF ANTHROPIC_API_KEY(environ) = "your-api-key-here"
         THEN /\ stdout' = Append(stdout, LineNoKey)
              /\ sys_exit' = "1"
              /\ UNCHANGED <<mode, output_folder, ppVars>>
         ELSE IF argv[1] = "--batch"
         THEN IF Len(argv) < 2
              THEN /\ stdout' = Append(stdout, LineBatchNeedsFolder)
                   /\ sys_exit' = "1"
                   /\ UNCHANGED <<mode, output_folder, ppVars>>
              ELSE /\ mode' = "batch"
                   /\ output_folder' = IF Len(argv) > 2 THEN argv[3] ELSE None
                   /\ UNCHANGED <<stdout, sys_exit, ppVars>>
         ELSE IF folder_n = 0
         THEN /\ stdout' = Append(stdout, LineNotFound)
              /\ sys_exit' = "1"
              /\ UNCHANGED <<mode, output_folder, ppVars>>
         ELSE /\ mode' = "single"
              /\ Begin(File(1),
                       IF Len(argv) > 1
                       THEN [root |-> "out", dir |-> "", stem |-> 1, ext |-> ".md"]
                       ELSE NoPath,
                       PAGES_PER_CHUNK)
              /\ UNCHANGED <<stdout, sys_exit, output_folder>>
    /\ UNCHANGED <<folder_n, bd_pc, pdf_files, bd_i, attempts, failed_files,
                   summary_from, caller_exc>>
    /\ UNCHANGED <<ckVars, pvVars>>

MainNext ==
    \/ Main
    \/ Extract
    \/ Chunk
    \/ CallProvider
    \/ ProviderReturns
    \/ AssembleDocument
    \/ Save
    \/ BatchCall
    \/ BatchIter
    \/ BatchFileDone
    \/ BatchFinish
    \/ AddFile

SpecMain == InitMain /\ [][MainNext]_vars

\* ================================================================== claims
IsPage(x) == x.t = "page"
PagesIn(chunk) == Len(SelectSeq(chunk, IsPage))
Flat(seqs) == Join(<<>>, seqs)

\* the least c with c * k >= n, for k >= 1
Ceil(n, k) == CHOOSE c \in 0..n : c * k >= n /\ (c = 0 \/ (c - 1) * k < n)

\* C1: for n >= 0 pages and chunk size k >= 1, chunk_pages gives ceil(n/k)
\* chunks, the first floor(n/k) of exactly k pages and the last of n mod k
\* pages (k when k divides n); the pages read across the chunks in order are
\* the original pages, each once.
C1_ChunkShape ==
    (ck_out # NoCall /\ ck_k >= 1) =>
        LET n == Len(ck_pages)
            k == ck_k
            c == ck_out.value
        IN  /\ ck_out.raised = "none"
            /\ Len(c) = Ceil(n, k)
            /\ \A j \in 1..(n \div k) : PagesIn(c[j]) = k
            /\ (n > 0 /\ n % k # 0) => PagesIn(c[Len(c)]) = n % k
            /\ (n > 0 /\ n % k = 0) => PagesIn(c[Len(c)]) = k
            /\ SelectSeq(Flat(c), IsPage) = Flat(ck_pages)

\* 12 pages in chunks of 5: three chunks of 5, 5 and 2 pages
C1_Witness ==
    /\ ck_out # NoCall
    /\ Len(ck_pages) = 12
    /\ ck_k = 5
    /\ Len(ck_out.value) = 3
    /\ PagesIn(ck_out.value[3]) = 2

\* C2 (as claimed): chunking a non-empty page sequence with
\* pages_per_chunk <= 0 fails (InvalidConfiguration; ValueError in Python) and
\* never returns a chunk list.
C2_NonPositiveFails ==
    (ck_out # NoCall /\ ck_k <= 0 /\ Len(ck_pages) > 0) => ck_out.raised = "ValueError"

\* C4 (as claimed): a reply whose stop/finish reason reports an exhausted
\* output-length budget makes the provider operation fail with
\* TruncationError, for both backends and both modes.
C4_TruncationRaises ==
    (pv_result # NoCall /\ pv_outcome.stop \in LengthStops) =>
        pv_result.raised = "TruncationError"

\* ----------------------------------------------------- pipeline claims
Failed(o) == o.raised # "none"
LoopOver == pp_i = Len(chunks) + 1
AfterChunking == pp_pc \in {"loop", "call", "assemble", "save", "returned"}
                    \/ (pp_pc = "raised" /\ pp_i >= 1)
Assembled == full_markdown # <<>>
Tokens(text) == {text[x] : x \in 1..Len(text)}
IsErrorResult(m, e) ==
    /\ Lit("<!-- Error converting chunk ") \in Tokens(m)
    /\ Lit(e) \in Tokens(m)

\* C3: a failing provider call does not abort the document: every chunk is
\* attempted, in order, one result is recorded per chunk, and the results
\* have the count and the order of the chunks.
C3_ChunkIsolation ==
    AfterChunking =>
        /\ \A j \in 1..Len(requests) :
              requests[j].i = j /\ requests[j].request = ChunkRequest(chunks[j])
        /\ Len(outcomes) = Len(markdown_chunks)
        /\ \A j \in 1..Len(outcomes) :
              IF Failed(outcomes[j])
              THEN IsErrorResult(markdown_chunks[j], outcomes[j].raised)
              ELSE markdown_chunks[j] = outcomes[j].text
        /\ pp_pc \in {"loop", "call"} =>
              /\ pp_i <= Len(chunks)
              /\ Len(markdown_chunks) = pp_i - 1
              /\ Len(requests) = IF pp_pc = "call" THEN pp_i ELSE pp_i - 1
        /\ pp_pc \notin {"loop", "call"} =>
              /\ LoopOver
              /\ Len(requests) = Len(chunks)
              /\ Len(markdown_chunks) = Len(chunks)

\* three chunks, the first and the third failed, the document returned
C3_Witness ==
    /\ pp_pc = "returned"
    /\ Len(chunks) = 3
    /\ Len(outcomes) = 3
    /\ Failed(outcomes[1])
    /\ ~Failed(outcomes[2])
    /\ Failed(outcomes[3])

\* the errors of one chunk's provider call: TruncationError, RateLimitError,
\* TransientNetworkError (the SDK's APIConnectionError), UnsupportedMode
\* (NotImplementedError); the SDK's AuthenticationError is caught alike
ChunkErrors == {"TruncationError", "RateLimitError", "APIConnectionError",
                "NotImplementedError", "AuthenticationError"}

C6_TruncationPropagates ==
    (pp_pc \in {"returned", "raised"}
        /\ \E j \in 1..Len(outcomes) : outcomes[j].stop \in LengthStops) =>
        (pp_pc = "raised" /\ pp_exc = "TruncationError")

NoDuplicates(s) == \A a, b \in 1..Len(s) : a # b => s[a] # s[b]

\* C7 (as claimed): in batch mode every file of the list is attempted
\* exactly once, in list order, whatever fails, and the batch never ends
\* before the last file: a finished batch has attempted them all, with one
\* output file per file that did not fail.
C7_BatchAttemptsAll ==
    (mode = "batch" /\ bd_pc # "idle" /\ Len(pdf_files) > 0) =>
        /\ bd_pc # "raised"
        /\ attempts = SubSeq(pdf_files, 1, Len(attempts))
        /\ NoDuplicates(attempts)
        /\ bd_pc = "returned" =>
              /\ attempts = pdf_files
              /\ Len(writes) >= Len(attempts) - Len(failed_files)
              /\ Len(writes) <= Len(attempts)

\* the lines batch_convert prints after its loop
Summary == SubSeq(stdout, summary_from + 1, Len(stdout))

\* C8 (as claimed): the final summary of a finished batch reports the counts
\* of attempted, succeeded and failed files (attempted = the length of the
\* list, succeeded + failed = attempted) and names every failed file.
C8_SummaryCounts ==
    (bd_pc = "returned" /\ Len(pdf_files) > 0) =>
        /\ Tok("int", Len(pdf_files)) \in Tokens(Flat(Summary))
        /\ Tok("int", Len(pdf_files) - Len(failed_files)) \in Tokens(Flat(Summary))
        /\ Tok("int", Len(failed_files)) \in Tokens(Flat(Summary))
        /\ \A j \in 1..Len(failed_files) :
              Tok("stem", failed_files[j].stem) \in Tokens(Flat(Summary))

\* the number of separator delimiters in a text
CountSeparators(text) == Cardinality({x \in 1..Len(text) : text[x] = SEPARATOR[1]})

\* C9 (as claimed): n >= 1 pages in chunks of k >= 1 give ceil(n/k) provider
\* calls and an assembled Document that contains exactly ceil(n/k) - 1
\* separator delimiters (replies that hold a delimiter themselves aside).
C9_CallsAndSeparators ==
    (Assembled /\ pages_per_chunk >= 1 /\ Len(pages) >= 1
        /\ \A j \in 1..Len(outcomes) : CountSeparators(outcomes[j].text) = 0) =>
        /\ Len(requests) = Ceil(Len(pages), pages_per_chunk)
        /\ CountSeparators(full_markdown) = Ceil(Len(pages), pages_per_chunk) - 1

\* C9 (amended): ceil(n/k) provider calls, one per chunk and none repeated;
\* the results are joined by max(ceil(n/k) - 1, 0) separators, and with the
\* identical rule that ends the header the Document holds
\* max(ceil(n/k) - 1, 0) + 1 delimiters when no result holds one.
C9_CallsAndSeparatorsWithHeader ==
    (Assembled /\ pages_per_chunk >= 1) =>
        /\ Len(requests) = Ceil(Len(pages), pages_per_chunk)
        /\ \A j \in 1..Len(requests) : requests[j].i = j
        /\ (\A j \in 1..Len(markdown_chunks) : CountSeparators(markdown_chunks[j]) = 0)
              => CountSeparators(full_markdown)
                    = Max(Ceil(Len(pages), pages_per_chunk) - 1, 0) + 1

\* 12 pages in chunks of 5: 3 calls, 3 delimiters (2 between the results)
C9_Witness ==
    /\ pp_pc = "returned"
    /\ Len(pages) = 12
    /\ pages_per_chunk = 5
    /\ Len(requests) = 3
    /\ \A j \in 1..Len(markdown_chunks) : CountSeparators(markdown_chunks[j]) = 0
    /\ CountSeparators(full_markdown) = 3

\* where the j-th result starts in the Document, and the j-th result there
RECURSIVE LenUpTo(_, _)
LenUpTo(parts, j) ==
    IF j = 0 THEN 0 ELSE LenUpTo(parts, j - 1) + Len(parts[j]) + Len(SEPARATOR)
ResultAt(j) ==
    SubSeq(full_markdown,
           Len(Header(pdf_path)) + LenUpTo(markdown_chunks, j - 1) + 1,
           Len(Header(pdf_path)) + LenUpTo(markdown_chunks, j - 1)
               + Len(markdown_chunks[j]))
FailedChunks == {j \in 1..Len(outcomes) : Failed(outcomes[j])}

\* C10 (as claimed): with one failed chunk, the Document holds every other
\* chunk's Markdown unchanged at its position and, at the failed chunk's
\* position, a comment marker with the chunk's 0-based ordinal and the error
\* message.
C10_MarkerHasOrdinal ==
    (Assembled /\ Cardinality(FailedChunks) = 1) =>
        \A j \in 1..Len(outcomes) :
            IF Failed(outcomes[j])
            THEN /\ IsErrorResult(ResultAt(j), outcomes[j].raised)
                 /\ Tok("int", j - 1) \in Tokens(ResultAt(j))
            ELSE ResultAt(j) = outcomes[j].text

\* C10 (amended): as claimed, but the marker holds the chunk's 1-based
\* position in emission order (its ordinal + 1).
C10_MarkerHasPosition ==
    (Assembled /\ Cardinality(FailedChunks) = 1) =>
        \A j \in 1..Len(outcomes) :
            IF Failed(outcomes[j])
            THEN /\ IsErrorResult(ResultAt(j), outcomes[j].raised)
                 /\ Tok("int", j) \in Tokens(ResultAt(j))
            ELSE ResultAt(j) = outcomes[j].text

\* three chunks, the second failed, the other two replies in place
C10_Witness ==
    /\ pp_pc = "returned"
    /\ Len(outcomes) = 3
    /\ FailedChunks = {2}
    /\ ResultAt(1) = outcomes[1].text
    /\ ResultAt(3) = outcomes[3].text
    /\ Tok("int", 2) \in Tokens(ResultAt(2))

\* the results in the order p gives them (p a permutation of their positions)
Permuted(parts, p) == [j \in 1..Len(parts) |-> parts[p[j]]]
Identity(n) == [j \in 1..n |-> j]
\* no result holds a horizontal rule
HoldsNoSeparator(parts) == \A j \in 1..Len(parts) : CountSeparators(parts[j]) = 0

\* C11 (as claimed): assembling any permutation of the chunk results other
\* than the identity gives a Document different from the one assembled from
\* the results in their original order.
C11_PermutationChangesDocument ==
    Assembled =>
        \A p \in Permutations(1..Len(markdown_chunks)) :
            p # Identity(Len(markdown_chunks)) =>
                Assemble(pdf_path, Permuted(markdown_chunks, p)) # full_markdown

\* C11 (amended): the Document holds the results in the order given, none
\* dropped and none moved: for results that hold no horizontal rule (the
\* delimiter token is the only text with "---" in it here), assembling a
\* permutation gives the same Document exactly when the permuted sequence
\* equals the original one (a permutation that only exchanges equal results
\* changes nothing).
C11_OrderPreserved ==
    (Assembled /\ HoldsNoSeparator(markdown_chunks)) =>
        \A p \in Permutations(1..Len(markdown_chunks)) :
            (Assemble(pdf_path, Permuted(markdown_chunks, p)) = full_markdown)
                <=> (Permuted(markdown_chunks, p) = markdown_chunks)

\* three results, the first two equal and the third different: exchanging
\* the first two keeps the Document, exchanging the last two changes it
C11_Witness ==
    /\ pp_pc = "returned"
    /\ Len(markdown_chunks) = 3
    /\ HoldsNoSeparator(markdown_chunks)
    /\ markdown_chunks[1] = markdown_chunks[2]
    /\ markdown_chunks[2] # markdown_chunks[3]
    /\ Assemble(pdf_path, Permuted(markdown_chunks, <<2, 1, 3>>)) = full_markdown
    /\ Assemble(pdf_path, Permuted(markdown_chunks, <<1, 3, 2>>)) # full_markdown

\* ----------------------------------------------------- provider claims
\* the names that select a backend, whatever their case
AnthropicNames == {"anthropic", "Anthropic"}
OpenAINames == {"openai", "OPENAI"}

\* C12: selecting a provider by a name other than anthropic or openai fails
\* at selection (UnknownProviderError; ValueError in Python) with no provider
\* and no backend client made and no request sent; a recognized name, in any
\* case, is never refused and selects the provider of that backend (built,
\* or its SDK client refusing a missing key), and its requests go there.
C12_UnknownProviderFails ==
    pv_args # NoArgs =>
        IF pv_args.provider_name \in AnthropicNames \cup OpenAINames
        THEN /\ pv_result.raised # "ValueError"
             /\ \/ provider.cls = IF pv_args.provider_name \in AnthropicNames
                                  THEN "AnthropicProvider" ELSE "OpenAIProvider"
                \/ /\ provider = NoProvider
                   /\ pv_args.provider_name \in OpenAINames
                   /\ pv_result.raised = "OpenAIError"
             /\ pv_request # NoRequest =>
                   pv_request.backend = IF pv_args.provider_name \in AnthropicNames
                                        THEN "anthropic" ELSE "openai"
        ELSE /\ pv_result.raised = "ValueError"
             /\ provider = NoProvider
             /\ pv_request = NoRequest
             /\ pv_outcome = NoOutcome

\* the name gemini was refused: no provider, no client, no request
C12_Witness ==
    /\ pv_args.provider_name = "gemini"
    /\ pv_result.raised = "ValueError"
    /\ provider = NoProvider
    /\ pv_request = NoRequest

\* C13 (as claimed): when neither an explicit key nor the environment
\* variable gives a usable (non-empty, non-placeholder) key, the absence is
\* reported and the run ends before any conversion is attempted and before
\* any provider call is issued (the script takes its key from the
\* environment variable only).
C13_AbsentCredentialAborts ==
    (environ["ANTHROPIC_API_KEY"] \in {None, "", "your-api-key-here"}) =>
        /\ requests = <<>>
        /\ in_flight = 0
        /\ pp_pc = "idle"
        /\ bd_pc = "idle"
        /\ mode = "main"

\* C14 (as claimed): the vision operation called on a provider whose model
\* takes no images fails with UnsupportedMode (NotImplementedError in
\* Python), and no text-only request is sent in its place.
C14_VisionUnsupportedFails ==
    (pv_op = "vision" /\ provider.model \in TextOnlyModels) =>
        /\ pv_result.raised = "NotImplementedError"
        /\ pv_request.mode # "text"

\* ----------------------------------------------------- batch path claims
\* C15: in batch mode every output path written is the path of an attempted
\* file relative to the input root, under the output root, with the suffix
\* .md, in the order of the attempts, and no output path is written twice.
C15_OutputPathsOneToOne ==
    (mode = "batch" /\ bd_pc # "idle") =>
        /\ NoDuplicates(writes)
        /\ \E pick \in [1..Len(writes) -> 1..Len(attempts)] :
              /\ \A a, b \in 1..Len(writes) : a < b => pick[a] < pick[b]
              /\ \A j \in 1..Len(writes) :
                    /\ writes[j].root = (IF output_folder = None THEN INPUT_ROOT
                                         ELSE output_folder)
                    /\ writes[j].dir = attempts[pick[j]].dir
                    /\ writes[j].stem = attempts[pick[j]].stem
                    /\ writes[j].ext = ".md"

\* a finished batch of four files, two of them of the same name in
\* different directories: four different output paths under out
C15_Witness ==
    /\ mode = "batch"
    /\ bd_pc = "returned"
    /\ output_folder = "out"
    /\ Len(writes) = 4
    /\ writes[1].stem = writes[2].stem
    /\ writes[1].dir # writes[2].dir
    /\ NoDuplicates(writes)

\* the files of the batch whose conversion has begun and not yet ended (the
\* loop index is one more than the number of files done, once the loop runs)
FilesInProgress == Len(attempts) - Max(bd_i - 1, 0)

\* C16: processing is strictly sequential: at most one provider call is in
\* flight, and only while the pipeline waits for it; the calls of a document
\* go out in ordinal order, each after every earlier one has returned or
\* failed; in batch mode at most one file is in progress, and the pipeline
\* runs only for that file.
C16_StrictlySequential ==
    /\ in_flight \in {0, 1}
    /\ in_flight = 1 <=> pp_pc = "call"
    /\ \A j \in 1..Len(requests) : requests[j].i = j
    /\ Len(outcomes) = Len(requests) - in_flight
    /\ (mode = "batch" /\ bd_pc # "idle") =>
          /\ FilesInProgress \in {0, 1}
          /\ FilesInProgress = 1 <=> bd_pc = "infile"
          /\ pp_pc # "idle" <=> bd_pc = "infile"

\* the second file of a batch, its second chunk's call in flight after the
\* first one's was answered
C16_Witness ==
    /\ mode = "batch"
    /\ bd_pc = "infile"
    /\ bd_i = 2
    /\ pp_pc = "call"
    /\ Len(requests) = 2
    /\ Len(outcomes) = 1
    /\ in_flight = 1

\* ------------------------------------------------- document error claims
\* the output path of the document in hand, and how often it was written
Target == IF output_path = NoPath THEN WithSuffix(pdf_path, ".md") ELSE output_path
Written == Cardinality({j \in 1..Len(writes) : writes[j] = Target})

\* C17: an error structural to the whole document (ExtractionError from an
\* unreadable PDF; the ValueError of a zero chunk size) leaves
\* convert_pdf_to_markdown as an exception, with no provider call issued and
\* no output file written for the document; the output file is written at
\* most once, and only after every chunk was processed and the Document
\* assembled.
C17_StructuralErrorPropagates ==
    pp_pc # "idle" =>
        /\ pp_exc \in {"ExtractionError", "ValueError"} =>
              /\ pp_pc = "raised"
              /\ requests = <<>>
              /\ outcomes = <<>>
              /\ Written = 0
        /\ Written <= 1
        /\ pp_pc = "returned" => Written = 1
        /\ Written = 1 =>
              /\ pp_pc = "returned" \/ (pp_pc = "raised" /\ pp_exc = "OSError")
              /\ Assembled
              /\ LoopOver
              /\ Len(requests) = Len(chunks)
              /\ Len(outcomes) = Len(chunks)
              /\ Len(markdown_chunks) = Len(chunks)

\* an unreadable PDF: the call raised, nothing was sent, nothing written
C17_Witness ==
    /\ mode = "single"
    /\ pp_pc = "raised"
    /\ pp_exc = "ExtractionError"
    /\ requests = <<>>
    /\ writes = <<>>

====
